---- MODULE Spec2Model ----
(***************************************************************************)
(* Model of mordred/_base/calculator.py: the descriptor registry           *)
(* (Calculator.register and the descriptors property), the per-structure   *)
(* evaluator (Calculator._calculate, _calculate_one, __call__) and the     *)
(* bulk driver (Calculator.map, _serial, and the worker-pool path).        *)
(*                                                                         *)
(* Five specifications share the variables.  Spec is the registry          *)
(* machine: a default-constructed calculator driven by register calls on   *)
(* flat collections, descriptors-setter calls and resets.  SpecState adds  *)
(* to it the pickle and copy hooks: __setstate__ and a shallow copy that   *)
(* shares the calculator's list and flag sets.  SpecLike is the            *)
(* same calculator driven by register calls on descriptor-likes of every   *)
(* form, nested.  SpecEval is the evaluator machine: a calculator          *)
(* constructed with some descriptors, then driven by evaluations of        *)
(* structures.  SpecMap is the bulk machine: such a calculator driven by   *)
(* map calls, serial and parallel.  In all of them every operation is a    *)
(* whole call of the code; its input and outcome stay in last and out      *)
(* until the caller takes them (Return), and the next operation starts     *)
(* after that.                                                             *)
(***************************************************************************)
EXTENDS Integers, Sequences, FiniteSets, TLC

VARIABLES
    descriptors,         \* self._descriptors : ordered registered units
    name_dict,           \* self._name_dict   : canonical name -> unit
    explicit_hydrogens,  \* self._explicit_hydrogens : set of booleans
    kekulizes,           \* self._kekulizes   : set of booleans
    require_3D,          \* self._require_3D  : aggregate flag
    debug,               \* self._debug
    has_cache,           \* whether the attribute self._cache is set
    cache,               \* self._cache : unit -> value
    holders,             \* units that carry a _context attribute
    behav,               \* what each unit's calculate does (environment)
    out,                 \* outcome of the last operation (history)
    last,                \* the last operation and its input (history)
    ser,                 \* the _serial generator and its progress bar
    par,                 \* the _parallel generator and its worker pool
    twin                 \* c2, a second calculator made by copy.copy(calc)

vars == <<descriptors, name_dict, explicit_hydrogens, kekulizes, require_3D,
          debug, has_cache, cache, holders, behav, out, last, ser, par, twin>>

regvars == <<descriptors, name_dict, explicit_hydrogens, kekulizes, require_3D>>

(***************************************************************************)
(* Bounds.                                                                 *)
(***************************************************************************)
\* longest collection handed to register / the descriptors setter
MaxInput == 2
\* longest collection handed to the constructor in SpecEval
MaxDescs == 2
\* longest sequence of structures handed to the serial bulk path
MaxMols == 1

\* structures handed to one map call of the bulk machine
MaxBulk == 2

\* nesting depth of the collections handed to register
MaxNest == 2

\* length of self._descriptors in the machine with __setstate__ and copies
MaxLen == 3

(***************************************************************************)
(* The descriptor units of the model.  Each is a Descriptor instance; its  *)
(* attributes are fixed at construction.                                   *)
(*   uA  : no dependencies                                                 *)
(*   uB  : depends on uA, requires a single fragment, declares an rtype    *)
(*   uC  : depends on uA, requires 3D                                      *)
(*   uA2 : another unit whose canonical name is also "A"; requires 3D      *)
(*   uE  : depends on uA2, a null dependency, and uA                       *)
(***************************************************************************)
Units == {"uA", "uB", "uC", "uA2", "uE"}

\* a register input that is neither iterable, class, module nor Descriptor
NotDesc == "notdesc"

\* a dependency declared as None
NoDep == "None"

\* str(desc)
Name(d) ==
    CASE d = "uA"  -> "A"
      [] d = "uB"  -> "B"
      [] d = "uC"  -> "C"
      [] d = "uA2" -> "A"
      [] d = "uE"  -> "E"

Names == {Name(d) : d \in Units}

\* desc.dependencies().values(), in the mapping's iteration order
dependencies(d) ==
    CASE d = "uA"  -> << >>
      [] d = "uB"  -> <<"uA">>
      [] d = "uC"  -> <<"uA">>
      [] d = "uA2" -> << >>
      [] d = "uE"  -> <<"uA2", NoDep, "uA">>

desc_require_3D(d) == d \in {"uC", "uA2"}

desc_require_connected(d) == d = "uB"

desc_explicit_hydrogens(d) == d \in {"uA", "uB", "uE"}

desc_kekulize(d) == d \in {"uA2", "uC"}

\* desc.rtype: a declared result type, or None
desc_rtype(d) == IF d = "uB" THEN "float" ELSE "None"

\* isinstance(x, Descriptor)
IsDescriptor(x) == x \in Units

\* units d depends on, directly or transitively (d excluded)
RECURSIVE Closure(_)
Closure(d) ==
    LET direct == {dependencies(d)[i] : i \in DOMAIN dependencies(d)} \ {NoDep}
    IN  direct \cup UNION {Closure(e) : e \in direct}

Range(s) == {s[i] : i \in DOMAIN s}

\* sequences over S of length 0..n
SeqUpTo(S, n) == UNION {[1..k -> S] : k \in 0..n}

(***************************************************************************)
(* Registry.  A registry value is the record of the five registry          *)
(* attributes; the operators below return the registry after the call and  *)
(* the exception that left it, if any.                                     *)
(***************************************************************************)
Registry ==
    [descriptors |-> descriptors, name_dict |-> name_dict,
     explicit_hydrogens |-> explicit_hydrogens, kekulizes |-> kekulizes,
     require_3D |-> require_3D]

\* the attributes as __init__ leaves them before its register call
EmptyRegistry ==
    [descriptors |-> << >>, name_dict |-> << >>,
     explicit_hydrogens |-> {}, kekulizes |-> {}, require_3D |-> FALSE]

NoExc == "none"

\* the deleter that clears the sequence and the lookup only
del_descriptors_keeping_flags(reg) ==
    [reg EXCEPT !.descriptors = << >>, !.name_dict = << >>]

\* lines 76-80: the descriptors deleter
del_descriptors(reg) ==
    [reg EXCEPT !.descriptors = << >>, !.name_dict = << >>,
                !.explicit_hydrogens = {}, !.kekulizes = {},
                !.require_3D = FALSE]

\* lines 92-94: the unit's requirement flags folded into the aggregate
AddFlags(reg, desc) ==
    [reg EXCEPT !.explicit_hydrogens = @ \cup {desc_explicit_hydrogens(desc)},
                !.kekulizes = @ \cup {desc_kekulize(desc)},
                !.require_3D = @ \/ desc_require_3D(desc)]

\* AddUnit that appends the unit without entering it in the lookup
AddUnit_unindexed(reg, desc) ==
    IF Name(desc) \in DOMAIN reg.name_dict
    THEN [reg |-> reg, exc |-> "DuplicatedDescriptorName"]
    ELSE [reg |-> [reg EXCEPT !.descriptors = Append(@, desc)], exc |-> NoExc]

\* AddUnit without the duplicate-name check: the later unit replaces the
\* earlier one in the lookup
AddUnit_unchecked(reg, desc) ==
    [reg |-> [reg EXCEPT
                !.name_dict = (Name(desc) :> desc) @@ @,
                !.descriptors = Append(@, desc)],
     exc |-> NoExc]

\* lines 101-107: the duplicate-name check and the insertion
AddUnit(reg, desc) ==
    IF Name(desc) \in DOMAIN reg.name_dict
    THEN [reg |-> reg, exc |-> "DuplicatedDescriptorName"]
    ELSE [reg |-> [reg EXCEPT
                     !.name_dict = (Name(desc) :> desc) @@ @,
                     !.descriptors = Append(@, desc)],
          exc |-> NoExc]

RECURSIVE register_one(_, _, _, _)
RECURSIVE register_deps(_, _, _)

\* lines 96-98: every Descriptor dependency is registered check-only,
\* without ignore_3D
register_deps(reg, deps, i) ==
    IF i > Len(deps) THEN reg
    ELSE IF IsDescriptor(deps[i])
         THEN register_deps(register_one(reg, deps[i], TRUE, FALSE).reg, deps, i + 1)
         ELSE register_deps(reg, deps, i + 1)

\* Calculator._register_one
register_one(reg, desc, check_only, ignore_3D) ==
    IF ~IsDescriptor(desc)
    THEN [reg |-> reg, exc |-> "ValueError"]
    ELSE IF ignore_3D /\ desc_require_3D(desc)
    THEN [reg |-> reg, exc |-> NoExc]
    ELSE LET r1 == AddFlags(reg, desc)
             r2 == register_deps(r1, dependencies(desc), 1)
         IN  IF check_only
             THEN [reg |-> r2, exc |-> NoExc]
             ELSE AddUnit(r2, desc)

\* Calculator.register on a collection: lines 133-135, each element going
\* through the non-iterable branch (line 131); the first exception ends
\* the call
RECURSIVE register(_, _, _, _)

\* register that goes on with the remaining elements after an element
\* raised, and raises at the end
register_going_on(reg, items, i, ignore_3D) ==
    IF i > Len(items) THEN [reg |-> reg, exc |-> NoExc]
    ELSE LET r == register_one(reg, items[i], FALSE, ignore_3D)
             rest == register(r.reg, items, i + 1, ignore_3D)
         IN  [reg |-> rest.reg, exc |-> IF r.exc # NoExc THEN r.exc ELSE rest.exc]

register(reg, items, i, ignore_3D) ==
    IF i > Len(items) THEN [reg |-> reg, exc |-> NoExc]
    ELSE LET r == register_one(reg, items[i], FALSE, ignore_3D)
         IN  IF r.exc # NoExc THEN r
             ELSE register(r.reg, items, i + 1, ignore_3D)

(***************************************************************************)
(* Structures, values and exceptions.                                      *)
(***************************************************************************)
\* m1: one fragment; m2: two fragments; m3: one fragment, and every unit
\* has a defined value on it
Mols == {"m1", "m2", "m3"}

\* Context.n_frags, computed once by Context.from_calculator
NFrags(m) == IF m = "m2" THEN 2 ELSE 1

\* what calculate can do: return a value of the declared type, return a
\* value that is not of the declared rtype, raise the missing-value
\* condition with the unit's own cause, raise any other exception
Outcomes(d) ==
    IF desc_rtype(d) = "None" THEN {"ok", "missing", "error"}
    ELSE {"ok", "badtype", "missing", "error"}

Outcome(bh, d, m) == IF m = "m3" THEN "ok" ELSE bh[d]

None == [kind |-> "None"]

NoRaise == [cls |-> "none", by |-> "-", wraps |-> "-"]

\* MissingValueException(error): the exception Descriptor.fail raises
MissingValueException(wraps, by) ==
    [cls |-> "MissingValueException", by |-> by, wraps |-> wraps]

\* Missing(e.error, stack)
Missing(e, stack) ==
    [kind |-> "Missing", error |-> [cls |-> e.wraps, by |-> e.by], stack |-> stack]

\* Error(e, stack)
Error(e, stack) ==
    [kind |-> "Error", error |-> [cls |-> e.cls, by |-> e.by], stack |-> stack]

\* Context.from_calculator(self, mol, id): a fresh context
from_calculator(m) == [mol |-> m, n_frags |-> NFrags(m), stack |-> << >>]

\* Context.reset
cxt_reset(cxt) == [cxt EXCEPT !.stack = << >>]

\* Context.add_stack
add_stack(cxt, d) == [cxt EXCEPT !.stack = Append(@, d)]

\* Context.get_stack
get_stack(cxt) == cxt.stack

(***************************************************************************)
(* Evaluator.  An evaluator state st is                                    *)
(*   cxt     the context of the structure being evaluated                  *)
(*   cache   self._cache                                                   *)
(*   holders the units whose _context attribute is set                     *)
(*   ncalls  how often each unit's calculate was invoked (history)         *)
(*   behav, debug   read only                                              *)
(* and every operator returns the state it leaves, the exception it        *)
(* raises (NoRaise if none) and its value.                                 *)
(***************************************************************************)
Returned(st, v) == [st |-> st, exc |-> NoRaise, val |-> v]

Raised(st, e) == [st |-> st, exc |-> e, val |-> None]

\* desc.fail(error): raises, never returns
fail(st, d, error) == Raised(st, MissingValueException(error, "-"))

\* desc.calculate(**args) on the context's structure
calculate(st, d, args) ==
    LET s1 == [st EXCEPT !.ncalls[d] = @ + 1]
        o  == Outcome(st.behav, d, st.cxt.mol)
    IN  CASE o = "ok" ->
               Returned(s1, [kind |-> "value", unit |-> d, mol |-> st.cxt.mol,
                             args |-> args, typed |-> TRUE])
          [] o = "badtype" ->
               Returned(s1, [kind |-> "value", unit |-> d, mol |-> st.cxt.mol,
                             args |-> args, typed |-> FALSE])
          [] o = "missing" -> Raised(s1, MissingValueException("cause", d))
          [] o = "error" -> Raised(s1, [cls |-> "Exception", by |-> d, wraps |-> "-"])

\* Calculator._check_rtype: the exception it raises, if any
check_rtype(d, result) ==
    IF desc_rtype(d) = "None" THEN NoRaise
    ELSE IF result.kind = "Error" THEN NoRaise
    ELSE IF result.kind = "value" /\ ~result.typed
         THEN [cls |-> "TypeError", by |-> d, wraps |-> "-"]
         ELSE NoRaise

\* in_cache without the lookup: every request computes
in_cache_never(st, d) == FALSE

\* line 138: desc in self._cache
in_cache(st, d) == d \in DOMAIN st.cache

\* line 160: self._cache[desc] = r
cache_store(st, d, r) == [st EXCEPT !.cache = (d :> r) @@ @]

RECURSIVE calculate_one(_, _, _)
RECURSIVE resolve_args(_, _, _, _)

\* resolve_args that passes None for a dependency whose resolution raised
resolve_args_tolerant(st, deps, i, acc) ==
    IF i > Len(deps) THEN Returned(st, acc)
    ELSE IF deps[i] = NoDep THEN resolve_args(st, deps, i + 1, Append(acc, None))
    ELSE LET r == calculate_one(st, deps[i], FALSE)
         IN  resolve_args(r.st, deps, i + 1, Append(acc, r.val))

\* lines 149-153: the dependencies resolved in the mapping's order, a None
\* dependency giving None without recursion; the first exception ends it
resolve_args(st, deps, i, acc) ==
    IF i > Len(deps) THEN Returned(st, acc)
    ELSE IF deps[i] = NoDep THEN resolve_args(st, deps, i + 1, Append(acc, None))
    ELSE LET r == calculate_one(st, deps[i], FALSE)
         IN  IF r.exc # NoRaise THEN Raised(r.st, r.exc)
             ELSE resolve_args(r.st, deps, i + 1, Append(acc, r.val))

\* lines 141-144: reset, desc._context = cxt, cxt.add_stack(desc)
enter(st, d, reset) ==
    LET c1 == IF reset THEN cxt_reset(st.cxt) ELSE st.cxt
    IN  [st EXCEPT !.holders = @ \cup {d}, !.cxt = add_stack(c1, d)]

\* compute that checks the result type whether or not debug is set
compute_checking_always(st, d, args) ==
    LET c == calculate(st, d, args)
    IN  IF c.exc # NoRaise THEN c
        ELSE LET t == check_rtype(d, c.val)
             IN  IF t # NoRaise THEN Raised(c.st, t)
                 ELSE Returned(cache_store(c.st, d, c.val), c.val)

\* lines 155-162: calculate, the debug check, the cache store
compute(st, d, args) ==
    LET c == calculate(st, d, args)
    IN  IF c.exc # NoRaise THEN c
        ELSE LET t == IF st.debug THEN check_rtype(d, c.val) ELSE NoRaise
             IN  IF t # NoRaise THEN Raised(c.st, t)
                 ELSE Returned(cache_store(c.st, d, c.val), c.val)

\* not_connected without the fragment count
not_connected_skipped(st, d) == FALSE

\* line 146: desc.require_connected and desc._context.n_frags != 1
not_connected(st, d) == desc_require_connected(d) /\ st.cxt.n_frags # 1

\* Calculator._calculate_one
calculate_one(st, d, reset) ==
    IF in_cache(st, d) THEN Returned(st, st.cache[d])
    ELSE LET s1 == enter(st, d, reset)
         IN  IF not_connected(s1, d)
             THEN fail(s1, d, "MultipleFragments")
             ELSE LET a == resolve_args(s1, dependencies(d), 1, << >>)
                  IN  IF a.exc # NoRaise THEN Raised(a.st, a.exc)
                      ELSE compute(a.st, d, a.val)

\* yield_for with the except clause for MissingValueException only: any
\* other exception leaves the generator
yield_for_missing_only(r, d) ==
    IF r.exc = NoRaise THEN [exc |-> NoRaise, val |-> r.val]
    ELSE IF r.exc.cls = "MissingValueException"
    THEN [exc |-> NoRaise, val |-> Missing(r.exc, get_stack(r.st.cxt))]
    ELSE [exc |-> r.exc, val |-> None]

\* yield_for with every exception reported as Error
yield_for_all_error(r, d) ==
    IF r.exc = NoRaise THEN [exc |-> NoRaise, val |-> r.val]
    ELSE [exc |-> NoRaise, val |-> Error(r.exc, get_stack(r.st.cxt))]

\* lines 177-182: what one iteration of _calculate yields for a unit, or
\* the exception that leaves the generator
yield_for(r, d) ==
    IF r.exc = NoRaise THEN [exc |-> NoRaise, val |-> r.val]
    ELSE IF d \notin r.st.holders
    THEN [exc |-> [cls |-> "AttributeError", by |-> d, wraps |-> "-"], val |-> None]
    ELSE IF r.exc.cls = "MissingValueException"
    THEN [exc |-> NoRaise, val |-> Missing(r.exc, get_stack(r.st.cxt))]
    ELSE [exc |-> NoRaise, val |-> Error(r.exc, get_stack(r.st.cxt))]

\* lines 183-185: del desc._context if it is set
finally_del(st, d) == [st EXCEPT !.holders = @ \ {d}]

\* new_cache that keeps the cache of the previous structure
new_cache_kept(st) == st

\* line 175: self._cache = {}
new_cache(st) == [st EXCEPT !.cache = << >>]

RECURSIVE calculate_loop(_, _, _, _)

\* calculate_loop that yields nothing for a unit that failed
calculate_loop_dropping(st, descs, i, acc) ==
    IF i > Len(descs) THEN [st |-> st, exc |-> NoRaise, results |-> acc]
    ELSE LET r == calculate_one(st, descs[i], TRUE)
             s == finally_del(r.st, descs[i])
         IN  calculate_loop(s, descs, i + 1,
                            IF r.exc = NoRaise THEN Append(acc, r.val) ELSE acc)

\* lines 176-185: the loop over self.descriptors
calculate_loop(st, descs, i, acc) ==
    IF i > Len(descs) THEN [st |-> st, exc |-> NoRaise, results |-> acc]
    ELSE LET r == calculate_one(st, descs[i], TRUE)
             y == yield_for(r, descs[i])
             s == finally_del(r.st, descs[i])
         IN  IF y.exc # NoRaise THEN [st |-> s, exc |-> y.exc, results |-> acc]
             ELSE calculate_loop(s, descs, i + 1, Append(acc, y.val))

ZeroCalls == [d \in Units |-> 0]

\* list(self._calculate(Context.from_calculator(self, mol, id))) on a
\* calculator whose cache is c0 and whose units in h0 carry a _context
run_calculate(descs, c0, h0, bh, dbg, m) ==
    LET st0 == [cxt |-> from_calculator(m), cache |-> c0, holders |-> h0,
                ncalls |-> ZeroCalls, behav |-> bh, debug |-> dbg]
    IN  calculate_loop(new_cache(st0), descs, 1, << >>)

(***************************************************************************)
(* Operations.  out and last hold the outcome and the input of the         *)
(* operation that has just finished, until the caller takes them.          *)
(***************************************************************************)
Items == Units \cup {NotDesc}

Inputs == SeqUpTo(Items, MaxInput)

SetRegistry(reg) ==
    /\ descriptors' = reg.descriptors
    /\ name_dict' = reg.name_dict
    /\ explicit_hydrogens' = reg.explicit_hydrogens
    /\ kekulizes' = reg.kekulizes
    /\ require_3D' = reg.require_3D

NoSer == [pc |-> "none", mols |-> << >>, pos |-> 0, n |-> 0]

NoOut == [exc |-> "none"]

Idle == last.op = "idle"

evalvars == <<debug, has_cache, cache, holders, behav, ser, par>>

\* no copy of the calculator has been made.  Of a copy c2 the record keeps
\* the five registry attributes and, for each of the three mutable objects
\* among them that __reduce_ex__ hands out, whether c2 and calc hold the
\* same object
NoTwin ==
    [live |-> FALSE, descriptors |-> << >>, name_dict |-> << >>,
     explicit_hydrogens |-> {}, kekulizes |-> {}, require_3D |-> FALSE,
     list_shared |-> FALSE, eh_shared |-> FALSE, kek_shared |-> FALSE]

\* c2 after calc has changed its registry to reg: an object the two share
\* has changed for both
follow(tw, reg) ==
    [tw EXCEPT
        !.descriptors = IF tw.list_shared THEN reg.descriptors ELSE @,
        !.explicit_hydrogens = IF tw.eh_shared THEN reg.explicit_hydrogens ELSE @,
        !.kekulizes = IF tw.kek_shared THEN reg.kekulizes ELSE @]

\* the keys of the state that the pickle hooks exchange.  A dict says, next
\* to the value under each key, whose object that value is (list_of, eh_of,
\* kek_of): a new one, the one calc holds, or the one a copy c2 holds
Keys == {"_descriptors", "_explicit_hydrogens", "_kekulizes", "_require_3D"}

\* line 31: {str(d): d for d in ds}; of two units of one name the later
\* one stays
RECURSIVE names_from(_, _, _)
names_from(ds, i, acc) ==
    IF i > Len(ds) THEN acc
    ELSE names_from(ds, i + 1, (Name(ds[i]) :> ds[i]) @@ acc)

\* Calculator.__setstate__(dict): dict.keys are the keys that are present
setstate(dict) ==
    LET ds == IF "_descriptors" \in dict.keys THEN dict.descriptors ELSE << >>
    IN  [descriptors |-> ds,
         name_dict |-> names_from(ds, 1, << >>),
         explicit_hydrogens |->
             IF "_explicit_hydrogens" \in dict.keys
             THEN dict.explicit_hydrogens ELSE {TRUE, FALSE},
         kekulizes |->
             IF "_kekulizes" \in dict.keys THEN dict.kekulizes ELSE {TRUE, FALSE},
         require_3D |->
             IF "_require_3D" \in dict.keys THEN dict.require_3D ELSE FALSE]

\* Calculator.__reduce_ex__ of the calculator who, whose registry is reg:
\* the state it hands to __setstate__ holds who's own list and sets
reduce_ex(reg, who) ==
    [keys |-> Keys, descriptors |-> reg.descriptors,
     explicit_hydrogens |-> reg.explicit_hydrogens,
     kekulizes |-> reg.kekulizes, require_3D |-> reg.require_3D,
     list_of |-> who, eh_of |-> who, kek_of |-> who]

\* calc.register(items, ignore_3D=ign)
Register(items, ign) ==
    LET r == register(Registry, items, 1, ign)
    IN  /\ Idle
        /\ SetRegistry(r.reg)
        /\ out' = [exc |-> r.exc]
        /\ last' = [op |-> "register", items |-> items, ignore_3D |-> ign]
        /\ twin' = follow(twin, r.reg)
        /\ UNCHANGED evalvars

\* del calc.descriptors: _descriptors and _name_dict are bound to new
\* objects, so a copy no longer shares the list; the flag sets are cleared
\* in place
DelDescriptors ==
    /\ Idle
    /\ SetRegistry(del_descriptors(Registry))
    /\ out' = NoOut
    /\ last' = [op |-> "del", before |-> Registry]
    /\ twin' = follow([twin EXCEPT !.list_shared = FALSE], del_descriptors(Registry))
    /\ UNCHANGED evalvars

\* calc.descriptors = items
SetDescriptors(items) ==
    LET r == register(del_descriptors(Registry), items, 1, FALSE)
    IN  /\ Idle
        /\ SetRegistry(r.reg)
        /\ out' = [exc |-> r.exc]
        /\ last' = [op |-> "set", items |-> items, ignore_3D |-> FALSE]
        /\ twin' = follow([twin EXCEPT !.list_shared = FALSE], r.reg)
        /\ UNCHANGED evalvars

\* the caller takes the outcome of the finished operation
Return ==
    /\ ~Idle
    /\ out' = NoOut
    /\ last' = [op |-> "idle"]
    /\ UNCHANGED <<regvars, evalvars, twin>>

\* calc._debug = b
SetDebug(b) ==
    /\ Idle
    /\ debug # b
    /\ debug' = b
    /\ UNCHANGED <<regvars, twin, has_cache, cache, holders, behav, ser, par, out, last>>

\* the structures the cached values were computed for
CachedMols == {cache[d].mol : d \in DOMAIN cache}

\* calc(mol), at any point between two operations, a suspended bulk run
\* included
Call(m) ==
    LET r == run_calculate(descriptors, cache, holders, behav, debug, m)
    IN  /\ Idle
        /\ has_cache' = TRUE
        /\ cache' = r.st.cache
        /\ holders' = r.st.holders
        /\ out' = [exc |-> r.exc.cls, results |-> r.results, ncalls |-> r.st.ncalls]
        /\ last' = [op |-> "call", mol |-> m, prior |-> CachedMols]
        /\ UNCHANGED <<regvars, twin, debug, behav, ser, par>>

\* calc.map(mols, nproc=1): the generator of _serial is created; nothing
\* of its body has run
SerialStart(mols) ==
    /\ Idle
    /\ ser.pc = "none"
    /\ par.pc = "none"
    /\ ser' = [pc |-> "created", mols |-> mols, pos |-> 0, n |-> 0]
    /\ UNCHANGED <<regvars, twin, debug, has_cache, cache, holders, behav, par, out, last>>

\* bar.update() left out
bar_update_never(n) == n

\* line 215: bar.update()
bar_update(n) == n + 1

\* next() on the generator of _serial: from its creation or from the
\* yield it is suspended at, to the next yield or to its end
SerialNext ==
    LET n1 == IF ser.pc = "yielded" THEN bar_update(ser.n) ELSE ser.n
    IN  /\ Idle
        /\ ser.pc \in {"created", "yielded"}
        /\ IF ser.pos < Len(ser.mols)
           THEN LET m == ser.mols[ser.pos + 1]
                    r == run_calculate(descriptors, cache, holders, behav, debug, m)
                IN  /\ has_cache' = TRUE
                    /\ cache' = r.st.cache
                    /\ holders' = r.st.holders
                    /\ ser' = IF r.exc = NoRaise
                              THEN [ser EXCEPT !.pos = @ + 1, !.n = n1, !.pc = "yielded"]
                              ELSE NoSer
                    /\ out' = [exc |-> r.exc.cls, results |-> r.results,
                               ncalls |-> r.st.ncalls, n |-> n1, k |-> ser.pos + 1]
                    /\ last' = [op |-> "next", mol |-> m, prior |-> CachedMols,
                                mols |-> ser.mols]
           ELSE /\ ser' = NoSer
                /\ out' = [exc |-> "StopIteration", n |-> n1, k |-> ser.pos]
                /\ last' = [op |-> "next", mol |-> "-", prior |-> CachedMols,
                            mols |-> ser.mols]
                /\ UNCHANGED <<has_cache, cache, holders>>
        /\ UNCHANGED <<regvars, twin, debug, behav, par>>

\* descs and debug are the worker processes' calculator.  History: first
\* is the position of the task that finished first, pickled how the
\* workers got their calculator, parent the calculator's _debug when the
\* pool started
NoPar ==
    [pc |-> "none", mols |-> << >>, done |-> << >>, pos |-> 0, first |-> 0,
     descs |-> << >>, debug |-> FALSE, pickled |-> FALSE, parent |-> FALSE]

\* the calculator a worker process holds.  A process gets it pickled, as
\* Calculator() followed by __setstate__ of the state of __reduce_ex__
\* (lines 29-42): the state carries no _debug, so the worker has the False
\* of __init__ (line 54).  Or it inherits the parent's memory when the
\* platform forks, and has the calculator as it is when the pool starts.
worker_calc(pickled) ==
    IF pickled
    THEN [descs |-> setstate(reduce_ex(Registry, "calc")).descriptors,
          debug |-> FALSE]
    ELSE [descs |-> descriptors, debug |-> debug]

\* self._parallel(mols, nproc, ...): one task per structure is handed to
\* the worker pool
ParallelStart(mols, pickled) ==
    /\ Idle
    /\ ser.pc = "none"
    /\ par.pc = "none"
    /\ par' = [pc |-> "running", mols |-> mols, done |-> << >>, pos |-> 0,
               first |-> 0, descs |-> worker_calc(pickled).descs,
               debug |-> worker_calc(pickled).debug,
               pickled |-> pickled, parent |-> debug]
    /\ UNCHANGED <<regvars, twin, debug, has_cache, cache, holders, behav, ser, out, last>>

\* a worker finishes the task of the i-th structure, in any order: it has
\* evaluated the structure on its own calculator (_calculate, lines
\* 174-185, with the worker's _debug at line 157), with its own context
\* and cache,
\* and the result is buffered under the structure's position.  The
\* caller sees the buffer only at its next call, so the completions are
\* taken between the caller's calls.
WorkerDone(i) ==
    /\ Idle
    /\ par.pc = "running"
    /\ i \in 1..Len(par.mols)
    /\ i \notin DOMAIN par.done
    /\ LET r == run_calculate(par.descs, << >>, {}, behav, par.debug, par.mols[i])
       IN  par' = [par EXCEPT !.done = (i :> r.results) @@ @,
                              !.first = IF @ = 0 THEN i ELSE @]
    /\ UNCHANGED <<regvars, twin, debug, has_cache, cache, holders, behav, ser, out, last>>

\* next() on the generator of _parallel: the buffered result of the next
\* structure in input order, once its worker has finished; the end after
\* the last one
ParallelNext ==
    /\ Idle
    /\ par.pc = "running"
    /\ IF par.pos < Len(par.mols)
       THEN /\ par.pos + 1 \in DOMAIN par.done
            /\ par' = [par EXCEPT !.pos = @ + 1]
            /\ out' = [exc |-> "none", results |-> par.done[par.pos + 1],
                       k |-> par.pos + 1]
            /\ last' = [op |-> "pnext", mol |-> par.mols[par.pos + 1],
                        mols |-> par.mols]
       ELSE /\ par' = NoPar
            /\ out' = [exc |-> "StopIteration", k |-> par.pos]
            /\ last' = [op |-> "pnext", mol |-> "-", mols |-> par.mols]
    /\ UNCHANGED <<regvars, twin, debug, has_cache, cache, holders, behav, ser>>

\* Calculator.map, lines 280-283: the serial path for nproc == 1, the
\* worker pool for every other nproc (0 stands for None, the default)
Map(mols, nproc) ==
    IF nproc = 1 THEN SerialStart(mols)
    ELSE \E pickled \in BOOLEAN : ParallelStart(mols, pickled)

AllOk == [d \in Units |-> "ok"]

\* Calculator() : lines 47-56 with the default descs=[]
Init ==
    /\ descriptors = << >>
    /\ name_dict = << >>
    /\ explicit_hydrogens = {}
    /\ kekulizes = {}
    /\ require_3D = FALSE
    /\ debug = FALSE
    /\ has_cache = FALSE
    /\ cache = << >>
    /\ holders = {}
    /\ behav = AllOk
    /\ out = NoOut
    /\ last = [op |-> "idle"]
    /\ ser = NoSer
    /\ par = NoPar
    /\ twin = NoTwin

DoRegister == \E items \in Inputs, ign \in BOOLEAN : Register(items, ign)

DoSetDescriptors == \E items \in Inputs : SetDescriptors(items)

Next ==
    \/ DoRegister
    \/ DoSetDescriptors
    \/ DelDescriptors
    \/ Return

Spec == Init /\ [][Next]_vars

\* the units a registry resolves: the registered ones and their closures
Resolved(descs) == Range(descs) \cup UNION {Closure(d) : d \in Range(descs)}

\* the behaviours of the units: any outcome for a unit the registry
\* resolves, the default for the others (they are never invoked)
Behavs(descs) ==
    {bh \in [Units -> {"ok", "badtype", "missing", "error"}] :
        \A d \in Units : /\ bh[d] \in Outcomes(d)
                         /\ d \notin Resolved(descs) => bh[d] = "ok"}

\* the units handed to the constructor in SpecEval
EvalUnits == {"uA", "uB", "uE"}

\* Calculator(descs, ignore_3D=ign), lines 47-56, for the constructions
\* that do not raise, with units of any behaviour
InitEval ==
    \E descs \in SeqUpTo(EvalUnits, MaxDescs), ign \in BOOLEAN :
        LET r == register(EmptyRegistry, descs, 1, ign)
        IN  /\ r.exc = NoExc
            /\ descriptors = r.reg.descriptors
            /\ name_dict = r.reg.name_dict
            /\ explicit_hydrogens = r.reg.explicit_hydrogens
            /\ kekulizes = r.reg.kekulizes
            /\ require_3D = r.reg.require_3D
            /\ debug = FALSE
            /\ has_cache = FALSE
            /\ cache = << >>
            /\ holders = {}
            /\ behav \in Behavs(r.reg.descriptors)
            /\ out = NoOut
            /\ last = [op |-> "idle"]
            /\ ser = NoSer
            /\ par = NoPar
            /\ twin = NoTwin

DoCall == \E m \in Mols : Call(m)

DoSetDebug == \E b \in BOOLEAN : SetDebug(b)

\* the structures handed to map in SpecEval
SerialMols == {"m1"}

DoSerialStart == \E mols \in SeqUpTo(SerialMols, MaxMols) : SerialStart(mols)

NextEval ==
    \/ DoCall
    \/ DoSetDebug
    \/ DoSerialStart
    \/ SerialNext
    \/ Return

SpecEval == InitEval /\ [][NextEval]_vars

(***************************************************************************)
(* The state machine of the pickle and copy hooks: __setstate__, and a     *)
(* shallow copy c2 = copy.copy(calc), which is Calculator() followed by    *)
(* c2.__setstate__ of the state that calc.__reduce_ex__ gives.             *)
(* __setstate__ binds the very list and sets its dict holds, and the state *)
(* of __reduce_ex__ holds the calculator's own list and sets: so a dict    *)
(* says, next to the value under each key, whose object that value is: a   *)
(* new one ("new"), the one calc holds ("calc"), or the one c2 holds and   *)
(* calc does not ("c2").                                                   *)
(***************************************************************************)
\* the registry of c2
TwinRegistry ==
    [descriptors |-> twin.descriptors, name_dict |-> twin.name_dict,
     explicit_hydrogens |-> twin.explicit_hydrogens,
     kekulizes |-> twin.kekulizes, require_3D |-> twin.require_3D]

\* calc.__reduce_ex__(2)[2]
CalcState == reduce_ex(Registry, "calc")

\* c2.__reduce_ex__(2)[2]: an object c2 shares with calc is calc's
TwinState ==
    [reduce_ex(TwinRegistry, "c2") EXCEPT
        !.list_of = IF twin.list_shared THEN "calc" ELSE "c2",
        !.eh_of = IF twin.eh_shared THEN "calc" ELSE "c2",
        !.kek_of = IF twin.kek_shared THEN "calc" ELSE "c2"]

\* the dict with the keys ks only
Sub(dict, ks) ==
    [keys |-> ks,
     descriptors |-> IF "_descriptors" \in ks THEN dict.descriptors ELSE << >>,
     explicit_hydrogens |->
         IF "_explicit_hydrogens" \in ks THEN dict.explicit_hydrogens ELSE {},
     kekulizes |-> IF "_kekulizes" \in ks THEN dict.kekulizes ELSE {},
     require_3D |-> "_require_3D" \in ks /\ dict.require_3D,
     list_of |-> IF "_descriptors" \in ks THEN dict.list_of ELSE "new",
     eh_of |-> IF "_explicit_hydrogens" \in ks THEN dict.eh_of ELSE "new",
     kek_of |-> IF "_kekulizes" \in ks THEN dict.kek_of ELSE "new"]

\* calc.__setstate__(dict): calc holds the objects of the dict, and a new
\* object for a key that is missing.  So calc shares with c2 afterwards
\* what the dict took from c2, and what it took from calc itself if c2
\* shared it before
SetState(dict) ==
    /\ Idle
    /\ SetRegistry(setstate(dict))
    /\ out' = NoOut
    /\ last' = [op |-> "setstate", dict |-> dict]
    /\ twin' = [twin EXCEPT
          !.list_shared = \/ dict.list_of = "c2"
                          \/ dict.list_of = "calc" /\ twin.list_shared,
          !.eh_shared = \/ dict.eh_of = "c2"
                        \/ dict.eh_of = "calc" /\ twin.eh_shared,
          !.kek_shared = \/ dict.kek_of = "c2"
                         \/ dict.kek_of = "calc" /\ twin.kek_shared]
    /\ UNCHANGED evalvars

\* c2.__setstate__(dict): the same for c2; calc is not touched
TwinSetState(dict) ==
    LET reg == setstate(dict)
    IN  /\ Idle
        /\ twin.live
        /\ twin' = [live |-> TRUE,
                    descriptors |-> reg.descriptors, name_dict |-> reg.name_dict,
                    explicit_hydrogens |-> reg.explicit_hydrogens,
                    kekulizes |-> reg.kekulizes, require_3D |-> reg.require_3D,
                    list_shared |-> \/ dict.list_of = "calc"
                                    \/ dict.list_of = "c2" /\ twin.list_shared,
                    eh_shared |-> \/ dict.eh_of = "calc"
                                  \/ dict.eh_of = "c2" /\ twin.eh_shared,
                    kek_shared |-> \/ dict.kek_of = "calc"
                                   \/ dict.kek_of = "c2" /\ twin.kek_shared]
        /\ out' = NoOut
        /\ last' = [op |-> "twin_setstate", dict |-> dict]
        /\ UNCHANGED <<regvars, evalvars>>

\* c2 = copy.copy(calc): a new calculator that is given calc's state
Copy ==
    LET reg == setstate(CalcState)
    IN  /\ Idle
        /\ twin' = [live |-> TRUE,
                    descriptors |-> reg.descriptors, name_dict |-> reg.name_dict,
                    explicit_hydrogens |-> reg.explicit_hydrogens,
                    kekulizes |-> reg.kekulizes, require_3D |-> reg.require_3D,
                    list_shared |-> TRUE, eh_shared |-> TRUE, kek_shared |-> TRUE]
        /\ twin' # twin
        /\ UNCHANGED <<regvars, evalvars, out, last>>

\* c2.register(items, ignore_3D=ign): the units are appended to c2's list
\* and the flags added to c2's flag sets, in place: what calc shares
\* changes for calc too
TwinRegister(items, ign) ==
    LET r == register(TwinRegistry, items, 1, ign)
    IN  /\ Idle
        /\ twin.live
        /\ twin' = [twin EXCEPT
              !.descriptors = r.reg.descriptors, !.name_dict = r.reg.name_dict,
              !.explicit_hydrogens = r.reg.explicit_hydrogens,
              !.kekulizes = r.reg.kekulizes, !.require_3D = r.reg.require_3D]
        /\ descriptors' = IF twin.list_shared THEN r.reg.descriptors ELSE descriptors
        /\ explicit_hydrogens' = IF twin.eh_shared THEN r.reg.explicit_hydrogens
                                  ELSE explicit_hydrogens
        /\ kekulizes' = IF twin.kek_shared THEN r.reg.kekulizes ELSE kekulizes
        /\ out' = [exc |-> r.exc]
        /\ last' = [op |-> "twin_register", items |-> items, ignore_3D |-> ign]
        /\ UNCHANGED <<name_dict, require_3D, evalvars>>

\* del c2.descriptors: c2 binds a new list and a new lookup, and clears
\* its flag sets in place
TwinDel ==
    LET reg == del_descriptors(TwinRegistry)
    IN  /\ Idle
        /\ twin.live
        /\ twin' = [twin EXCEPT
              !.descriptors = reg.descriptors, !.name_dict = reg.name_dict,
              !.explicit_hydrogens = reg.explicit_hydrogens,
              !.kekulizes = reg.kekulizes, !.require_3D = reg.require_3D,
              !.list_shared = FALSE]
        /\ explicit_hydrogens' = IF twin.eh_shared THEN reg.explicit_hydrogens
                                  ELSE explicit_hydrogens
        /\ kekulizes' = IF twin.kek_shared THEN reg.kekulizes ELSE kekulizes
        /\ out' = NoOut
        /\ last' = [op |-> "twin_del"]
        /\ UNCHANGED <<descriptors, name_dict, require_3D, evalvars>>

\* the units of this machine
StateUnits == {"uB", "uC"}

\* the keys a dict has: none, the list, the flags, all
KeySets == {{}, {"_descriptors"}, Keys \ {"_descriptors"}, Keys}

\* the collections handed to register and to the setter in this machine
OneUnit == {<<u>> : u \in StateUnits}

StateInputs == SeqUpTo(StateUnits, MaxInput)

\* dicts of new objects
Dicts ==
    {[keys |-> ks,
      descriptors |-> IF "_descriptors" \in ks THEN ds ELSE << >>,
      explicit_hydrogens |-> IF "_explicit_hydrogens" \in ks THEN {TRUE} ELSE {},
      kekulizes |-> IF "_kekulizes" \in ks THEN {FALSE} ELSE {},
      require_3D |-> "_require_3D" \in ks,
      list_of |-> "new", eh_of |-> "new", kek_of |-> "new"] :
        ks \in KeySets, ds \in StateInputs}

\* the dicts handed to __setstate__: those of new objects, and the states
\* that __reduce_ex__ gives for calc and for c2, whole or with keys removed
DictsNow ==
    Dicts \cup {Sub(CalcState, ks) : ks \in KeySets}
          \cup IF twin.live THEN {Sub(TwinState, ks) : ks \in KeySets} ELSE {}

\* the register calls that keep the list within MaxLen
Fits(descs, items) == Len(descs) + Len(items) <= MaxLen

DoSetState == \E dict \in DictsNow : SetState(dict)

\* c2 is given a state of calc or of itself
DoTwinSetState == \E dict \in DictsNow \ Dicts : TwinSetState(dict)

DoRegisterState ==
    \E items \in OneUnit, ign \in BOOLEAN :
        Fits(descriptors, items) /\ Register(items, ign)

DoTwinRegister ==
    \E items \in OneUnit, ign \in BOOLEAN :
        Fits(twin.descriptors, items) /\ TwinRegister(items, ign)

DoSetDescriptorsState == \E items \in OneUnit : SetDescriptors(items)

NextState ==
    \/ DoSetState
    \/ DoTwinSetState
    \/ Copy
    \/ DoRegisterState
    \/ DoTwinRegister
    \/ TwinDel
    \/ DoSetDescriptorsState
    \/ DelDescriptors
    \/ Return

SpecState == Init /\ [][NextState]_vars

\* an object that calc and c2 share has one value
SharedAgree ==
    /\ twin.list_shared => twin.live /\ twin.descriptors = descriptors
    /\ twin.eh_shared => twin.live /\ twin.explicit_hydrogens = explicit_hydrogens
    /\ twin.kek_shared => twin.live /\ twin.kekulizes = kekulizes

(***************************************************************************)
(* The register machine for descriptor-likes of every form: a unit, an     *)
(* object that is no descriptor, a text string, a descriptor class, a      *)
(* module, and collections of these, nested.                               *)
(***************************************************************************)
UnitOf(u) == [t |-> "unit", u |-> u]

\* an object that is neither a descriptor nor iterable, such as a number
Other == [t |-> "other"]

\* a text string of n characters
Str(n) == [t |-> "str", len |-> n]

\* a descriptor class whose preset() gives the units ps
Class(ps) == [t |-> "class", preset |-> ps]

\* a list or tuple
List(xs) == [t |-> "list", xs |-> xs]

\* a module: its attributes in the order of dir(), each with its name
\* being private or not, the object, and the line of its definition
Module(attrs) == [t |-> "module", attrs |-> attrs]

ClsA == Class(<<"uA">>)

ClsB == Class(<<"uB">>)

ClsK == Class(<<"uC", "uB">>)

TheModule ==
    Module(<<[private |-> TRUE,  obj |-> ClsK,  line |-> 1],
             [private |-> FALSE, obj |-> ClsB,  line |-> 20],
             [private |-> FALSE, obj |-> Other, line |-> 5],
             [private |-> FALSE, obj |-> ClsA,  line |-> 10]>>)

\* lines 316-321: check(fn) with submodule given
check(fn, submodule) == fn.t = "class" \/ (submodule /\ fn.t = "module")

\* get_descriptors_from_module: the public attributes that pass check,
\* sorted by the line of their definition
get_descriptors_from_module(mdl, submodule) ==
    LET kept == SelectSeq(mdl.attrs,
                          LAMBDA a : ~a.private /\ check(a.obj, submodule))
        srt  == SortSeq(kept, LAMBDA a, b : a.line < b.line)
    IN  [i \in DOMAIN srt |-> srt[i].obj]

\* line 122: hasattr(desc, '__iter__'); a text string has the attribute
\* under Python 3 and not under Python 2
has_iter(desc, py3) == desc.t = "list" \/ (desc.t = "str" /\ py3)

\* iter(desc): the elements of a list; the characters of a text string,
\* each one a text string of one character
elements(desc) ==
    IF desc.t = "list" THEN desc.xs ELSE [i \in 1..desc.len |-> Str(1)]

\* the argument _register_one receives for a descriptor-like
payload(desc) == IF desc.t = "unit" THEN desc.u ELSE NotDesc

\* the depth of calls at which the interpreter raises RecursionError
RecursionLimit == MaxNest + 3

RECURSIVE register_like(_, _, _, _, _)
RECURSIVE register_iter(_, _, _, _, _, _)

\* lines 133-135: for d in desc: self.register(d, ignore_3D)
register_iter(reg, xs, i, ignore_3D, py3, depth) ==
    IF i > Len(xs) THEN [reg |-> reg, exc |-> NoExc]
    ELSE LET r == register_like(reg, xs[i], ignore_3D, py3, depth)
         IN  IF r.exc # NoExc THEN r
             ELSE register_iter(r.reg, xs, i + 1, ignore_3D, py3, depth)

\* Calculator.register, called at the given depth of calls
register_like(reg, desc, ignore_3D, py3, depth) ==
    IF depth > RecursionLimit THEN [reg |-> reg, exc |-> "RecursionError"]
    ELSE IF ~has_iter(desc, py3)
    THEN CASE desc.t = "class" -> register(reg, desc.preset, 1, ignore_3D)
           [] desc.t = "module" ->
                register_like(reg, List(get_descriptors_from_module(desc, TRUE)),
                              ignore_3D, py3, depth + 1)
           [] OTHER -> register_one(reg, payload(desc), FALSE, ignore_3D)
    ELSE register_iter(reg, elements(desc), 1, ignore_3D, py3, depth + 1)

\* calc.register(desc, ignore_3D=ign) under either interpreter
RegisterLike(desc, ign, py3) ==
    LET r == register_like(Registry, desc, ign, py3, 1)
    IN  /\ Idle
        /\ SetRegistry(r.reg)
        /\ out' = [exc |-> r.exc]
        /\ last' = [op |-> "register_like", input |-> desc, ignore_3D |-> ign,
                    py3 |-> py3]
        /\ twin' = follow(twin, r.reg)
        /\ UNCHANGED evalvars

Leaves == {UnitOf("uA"), UnitOf("uB"), Other, Str(1), TheModule}

\* the descriptor-likes nested to depth n at most
RECURSIVE Likes(_)
Likes(n) ==
    IF n = 0 THEN Leaves
    ELSE Leaves \cup {List(xs) : xs \in SeqUpTo(Likes(n - 1), MaxInput)}

DoRegisterLike ==
    \E desc \in Likes(MaxNest) \cup {ClsK}, ign \in BOOLEAN, py3 \in BOOLEAN :
        RegisterLike(desc, ign, py3)

NextLike ==
    \/ DoRegisterLike
    \/ DelDescriptors
    \/ Return

SpecLike == Init /\ [][NextLike]_vars

(***************************************************************************)
(* The bulk machine: a calculator constructed with some descriptors, then  *)
(* driven by map calls, serial and parallel, over several structures, in   *)
(* and out of debug mode.                                                  *)
(***************************************************************************)
\* the units handed to the constructor in SpecMap
MapUnits == {"uA", "uB"}

\* the structures handed to map in SpecMap
BulkMols == {"m1", "m3"}

\* the nproc arguments of map: None (written 0), 1, 2
NProcs == 0..2

InitMap ==
    \E descs \in SeqUpTo(MapUnits, MaxDescs) :
        LET r == register(EmptyRegistry, descs, 1, FALSE)
        IN  /\ r.exc = NoExc
            /\ descriptors = r.reg.descriptors
            /\ name_dict = r.reg.name_dict
            /\ explicit_hydrogens = r.reg.explicit_hydrogens
            /\ kekulizes = r.reg.kekulizes
            /\ require_3D = r.reg.require_3D
            /\ debug = FALSE
            /\ has_cache = FALSE
            /\ cache = << >>
            /\ holders = {}
            /\ behav \in Behavs(r.reg.descriptors)
            /\ out = NoOut
            /\ last = [op |-> "idle"]
            /\ ser = NoSer
            /\ par = NoPar
            /\ twin = NoTwin

DoMap == \E mols \in SeqUpTo(BulkMols, MaxBulk), nproc \in NProcs : Map(mols, nproc)

DoWorkerDone == \E i \in 1..MaxBulk : WorkerDone(i)

NextMap ==
    \/ DoMap
    \/ DoSetDebug
    \/ SerialNext
    \/ DoWorkerDone
    \/ ParallelNext
    \/ Return

SpecMap == InitMap /\ [][NextMap]_vars

(***************************************************************************)
(* What the claims speak of, stated without the operators of the model.    *)
(***************************************************************************)
NamesOf(seq) == {Name(seq[i]) : i \in DOMAIN seq}

\* d requires 3D itself or through its dependency closure
Needs3D(d) == desc_require_3D(d) \/ \E e \in Closure(d) : desc_require_3D(e)

\* an evaluation of a structure has just finished
HasRun == last.op \in {"call", "next"} /\ last.mol # "-"

Failure == {"Missing", "Error"}

\* d's own calculate fails on m: it raises, or in debug mode its value is
\* rejected by the check of the declared rtype
OwnFails(bh, dbg, m, d) ==
    \/ Outcome(bh, d, m) \in {"missing", "error"}
    \/ dbg /\ desc_rtype(d) # "None" /\ Outcome(bh, d, m) = "badtype"

\* resolving d on m raises
RECURSIVE Raises(_, _, _, _)
Raises(bh, dbg, m, d) ==
    \/ desc_require_connected(d) /\ NFrags(m) # 1
    \/ \E i \in DOMAIN dependencies(d) :
          dependencies(d)[i] # NoDep /\ Raises(bh, dbg, m, dependencies(d)[i])
    \/ OwnFails(bh, dbg, m, d)

\* d's own calculate is reached on m
OwnReached(bh, dbg, m, d) ==
    /\ ~(desc_require_connected(d) /\ NFrags(m) # 1)
    /\ \A i \in DOMAIN dependencies(d) :
          dependencies(d)[i] # NoDep => ~Raises(bh, dbg, m, dependencies(d)[i])

\* the result r is the entry of unit d
Belongs(r, d) ==
    IF r.kind = "value" THEN r.unit = d
    ELSE r.kind \in Failure /\ Len(r.stack) > 0 /\ r.stack[1] = d

\* the structures the values inside v were computed for
RECURSIVE ValueMols(_)
ValueMols(v) ==
    IF v.kind = "value"
    THEN {v.mol} \cup UNION {ValueMols(v.args[i]) : i \in DOMAIN v.args}
    ELSE {}

(***************************************************************************)
(* C1.  Original claim: within the evaluation of one structure every       *)
(* unit's calculate is invoked at most once, whatever its outcome.         *)
(***************************************************************************)
C1_AtMostOnce ==
    HasRun => \A d \in Units : out.ncalls[d] <= 1

\* C1 as amended: within the evaluation of one structure, a unit whose
\* resolution returns normally (so that its value is cached) has its
\* calculate invoked exactly once, and only a unit whose own calculate
\* fails is invoked more than once.
C1_CachedOnce ==
    HasRun =>
        \A d \in Units :
            /\ d \in DOMAIN cache => out.ncalls[d] = 1
            /\ out.ncalls[d] > 1 => OwnFails(behav, debug, last.mol, d)

C1_Witness ==
    /\ HasRun
    /\ descriptors = <<"uA", "uB">>
    /\ {"uA", "uB"} \subseteq DOMAIN cache
    /\ out.ncalls["uA"] = 1

(***************************************************************************)
(* C2.  Iterating all registered units never raises: the evaluation        *)
(* returns one entry per registered unit, a tagged failure for exactly the *)
(* units whose resolution raises, whatever the outcomes of the units.      *)
(***************************************************************************)
C2_NeverRaises ==
    HasRun =>
        /\ out.exc = "none"
        /\ Len(out.results) = Len(descriptors)
        /\ \A i \in DOMAIN descriptors :
              IF Raises(behav, debug, last.mol, descriptors[i])
              THEN out.results[i].kind \in Failure
              ELSE out.results[i].kind = "value"

C2_Witness ==
    /\ HasRun
    /\ out.exc = "none"
    /\ Len(out.results) = 2
    /\ out.results[1].kind = "Error"
    /\ out.results[2].kind = "value"

(***************************************************************************)
(* C3.  A register call (or a descriptors-setter call, which registers on  *)
(* the emptied registry) raises DuplicatedDescriptorName at the first unit *)
(* it is to add whose canonical name is already registered; a unit that    *)
(* was only reached as a dependency does not count as registered, so       *)
(* registering it directly, before or after, raises nothing and leaves it  *)
(* in the registry once.                                                   *)
(***************************************************************************)
\* the unit is passed over because of ignore_3D
Skipped(x, ign) == ign /\ IsDescriptor(x) /\ desc_require_3D(x)

\* the units of items that are to be added
ToAdd(items, ign) == SelectSeq(items, LAMBDA x : ~Skipped(x, ign))

\* the elements of items that register_one rejects, given the registered
\* units descs
Offenders(descs, items, ign) ==
    {k \in DOMAIN items :
        \/ ~IsDescriptor(items[k])
        \/ /\ ~Skipped(items[k], ign)
           /\ \/ Name(items[k]) \in NamesOf(descs)
              \/ \E j \in 1..(k - 1) :
                    /\ IsDescriptor(items[j])
                    /\ ~Skipped(items[j], ign)
                    /\ Name(items[j]) = Name(items[k])}

Least(S) == CHOOSE k \in S : \A j \in S : k <= j

C3_Step ==
    (last'.op \in {"register", "set"}) =>
        LET items == last'.items
            ign   == last'.ignore_3D
            before == IF last'.op = "set" THEN << >> ELSE descriptors
            off   == Offenders(before, items, ign)
        IN  IF off = {}
            THEN /\ out'.exc = NoExc
                 /\ descriptors' = before \o ToAdd(items, ign)
                 /\ \A d \in Units :
                       Cardinality({i \in DOMAIN descriptors' : descriptors'[i] = d}) <= 1
            ELSE /\ out'.exc = IF IsDescriptor(items[Least(off)])
                               THEN "DuplicatedDescriptorName" ELSE "ValueError"
                 /\ descriptors' =
                       before \o ToAdd(SubSeq(items, 1, Least(off) - 1), ign)

C3_DuplicateName == [][C3_Step]_vars

C3_Witness ==
    /\ last.op = "register"
    /\ last.items = <<"uA">>
    /\ out.exc = "DuplicatedDescriptorName"
    /\ descriptors = <<"uB", "uA">>

(***************************************************************************)
(* C4.  The aggregate requires-3D flag is true if and only if a            *)
(* registered unit, or a unit in the dependency closure of a registered    *)
(* unit, declares require_3D.                                              *)
(***************************************************************************)
C4_Require3DIff ==
    require_3D <=> \E d \in Resolved(descriptors) : desc_require_3D(d)

(***************************************************************************)
(* C5.  register(x, ignore_3D=True) that raises nothing registers, in      *)
(* input order, exactly the units that require 3D neither themselves nor   *)
(* through their dependency closure, and on an empty registry leaves the   *)
(* aggregate requires-3D flag false.                                       *)
(***************************************************************************)
C5_Step ==
    (last'.op = "register" /\ last'.ignore_3D /\ out'.exc = NoExc) =>
        /\ descriptors' =
              descriptors \o SelectSeq(last'.items, LAMBDA d : ~Needs3D(d))
        /\ Registry = EmptyRegistry => ~require_3D'

C5_Ignore3D == [][C5_Step]_vars

(***************************************************************************)
(* C6.  The output of an evaluation has one entry per registered unit,     *)
(* the i-th entry being that of the i-th registered unit; a unit that is   *)
(* only a dependency has no entry and is not in the name lookup.           *)
(***************************************************************************)
C6_OrderAligned ==
    HasRun =>
        /\ Len(out.results) = Len(descriptors)
        /\ \A i \in DOMAIN descriptors : Belongs(out.results[i], descriptors[i])
        /\ DOMAIN name_dict = NamesOf(descriptors)
        /\ \A d \in Resolved(descriptors) \ Range(descriptors) :
              /\ \A i \in DOMAIN out.results : ~Belongs(out.results[i], d)
              /\ \A n \in DOMAIN name_dict : name_dict[n] # d

C6_Witness ==
    /\ HasRun
    /\ descriptors = <<"uE", "uA">>
    /\ out.results[1].kind \in Failure
    /\ out.results[2].kind = "value"
    /\ out.ncalls["uA"] = 1

(***************************************************************************)
(* C7.  A unit that requires a single fragment, evaluated as a top-level   *)
(* unit on a structure whose fragment count is not 1, yields a tagged      *)
(* failure whose cause is MultipleFragments, and its calculate is not      *)
(* invoked for that structure.                                             *)
(***************************************************************************)
C7_MultipleFragments ==
    (HasRun /\ NFrags(last.mol) # 1) =>
        \A i \in DOMAIN descriptors :
            desc_require_connected(descriptors[i]) =>
                /\ out.results[i].kind \in Failure
                /\ out.results[i].error.cls = "MultipleFragments"
                /\ out.ncalls[descriptors[i]] = 0

C7_Witness ==
    /\ HasRun
    /\ last.mol = "m2"
    /\ behav["uA"] = "error"
    /\ \E i \in DOMAIN descriptors :
          /\ descriptors[i] = "uB"
          /\ out.results[i].kind = "Missing"

(***************************************************************************)
(* C8.  Original claim: a top-level unit whose own calculate raises the    *)
(* missing-value condition yields Missing with the unit's cause, one whose *)
(* calculate raises anything else yields Error with that exception, and    *)
(* one whose calculate returns normally yields the returned value.         *)
(***************************************************************************)
OwnMissing(r, d) == r.kind = "Missing" /\ r.error = [cls |-> "cause", by |-> d]

OwnError(r, d) == r.kind = "Error" /\ r.error = [cls |-> "Exception", by |-> d]

C8_OwnOutcome ==
    HasRun =>
        \A i \in DOMAIN descriptors :
            LET d == descriptors[i]
                o == Outcome(behav, d, last.mol)
                r == out.results[i]
            IN  OwnReached(behav, debug, last.mol, d) =>
                    CASE o = "missing" -> OwnMissing(r, d)
                      [] o = "error" -> OwnError(r, d)
                      [] OTHER -> r.kind = "value" /\ r.unit = d

\* C8 as amended: the same, except that in debug mode a unit whose
\* calculate returns a value that does not match its declared result type
\* yields an Error that carries the TypeError of the check.
C8_OwnOutcomeChecked ==
    HasRun =>
        \A i \in DOMAIN descriptors :
            LET d == descriptors[i]
                o == Outcome(behav, d, last.mol)
                r == out.results[i]
            IN  OwnReached(behav, debug, last.mol, d) =>
                    CASE o = "missing" -> OwnMissing(r, d)
                      [] o = "error" -> OwnError(r, d)
                      [] o = "badtype" /\ debug /\ desc_rtype(d) # "None" ->
                            r.kind = "Error" /\ r.error = [cls |-> "TypeError", by |-> d]
                      [] OTHER -> r.kind = "value" /\ r.unit = d /\ r.mol = last.mol

C8_Witness ==
    /\ HasRun
    /\ debug
    /\ \E i \in DOMAIN descriptors :
          /\ out.results[i].kind = "Error"
          /\ out.results[i].error.cls = "TypeError"
    /\ \E i \in DOMAIN descriptors : OwnMissing(out.results[i], descriptors[i])

(***************************************************************************)
(* C9.  Every evaluation of a structure starts from an empty cache: when   *)
(* it has finished, every cached value and every value in the output was   *)
(* computed in this evaluation, for this structure.                        *)
(***************************************************************************)
C9_CachePerStructure ==
    HasRun =>
        /\ has_cache
        /\ \A d \in DOMAIN cache :
              /\ ValueMols(cache[d]) = {last.mol}
              /\ out.ncalls[d] = 1
        /\ \A i \in DOMAIN out.results : ValueMols(out.results[i]) \subseteq {last.mol}

C9_Witness ==
    /\ HasRun
    /\ last.op = "next"
    /\ last.prior = {"m3"}
    /\ last.mol = "m1"
    /\ DOMAIN cache # {}

(***************************************************************************)
(* C10.  Failure non-interference: the result of a top-level unit that     *)
(* does not depend on unit F is the same whether F's calculate fails or    *)
(* succeeds, and the results of a structure are those of a calculator that *)
(* has evaluated no other structure.                                       *)
(***************************************************************************)
Fresh(bh) == run_calculate(descriptors, << >>, {}, bh, debug, last.mol).results

C10_NonInterference ==
    HasRun =>
        /\ out.results = Fresh(behav)
        /\ \A F \in Resolved(descriptors) : \A o \in Outcomes(F) :
              LET alt == Fresh([behav EXCEPT ![F] = o])
              IN  \A i \in DOMAIN descriptors :
                     (descriptors[i] # F /\ F \notin Closure(descriptors[i]))
                         => alt[i] = out.results[i]

\* the same with the diagnostic stacks left out of the comparison
Unstacked(r) == IF r.kind \in Failure THEN [r EXCEPT !.stack = << >>] ELSE r

C10_UpToStack ==
    HasRun =>
        \A F \in Resolved(descriptors) : \A o \in Outcomes(F) :
            LET alt == Fresh([behav EXCEPT ![F] = o])
            IN  \A i \in DOMAIN descriptors :
                   (descriptors[i] # F /\ F \notin Closure(descriptors[i]))
                       => Unstacked(alt[i]) = Unstacked(out.results[i])

(***************************************************************************)
(* C13.  In every registry state reached by register calls (raising ones   *)
(* included), setter calls and resets, no two units of the ordered         *)
(* sequence share a canonical name, and the name lookup maps exactly the   *)
(* names of the units of the sequence, each to that unit.                  *)
(***************************************************************************)
C13_UniqueNames ==
    /\ \A i, j \in DOMAIN descriptors :
          Name(descriptors[i]) = Name(descriptors[j]) => i = j
    /\ DOMAIN name_dict = NamesOf(descriptors)
    /\ \A i \in DOMAIN descriptors :
          name_dict[Name(descriptors[i])] = descriptors[i]

C13_Witness ==
    /\ last.op = "register"
    /\ out.exc = "DuplicatedDescriptorName"
    /\ Len(descriptors) = 2
    /\ DOMAIN name_dict = {Name(descriptors[1]), Name(descriptors[2])}

(***************************************************************************)
(* C14.  Deleting the descriptors leaves, from any state, the registry of  *)
(* a freshly constructed empty calculator: empty sequence, empty lookup,   *)
(* empty flag sets, require_3D false.  So the setter (reset, then          *)
(* register) gives the registry and the outcome that the same register     *)
(* call gives on a fresh calculator, and it raises the duplicate-name      *)
(* error only for two elements of its own input, never for a name that     *)
(* was registered before the reset.                                        *)
(***************************************************************************)
C14_ResetIsFresh ==
    /\ last.op = "del" =>
          /\ descriptors = << >>
          /\ DOMAIN name_dict = {}
          /\ explicit_hydrogens = {}
          /\ kekulizes = {}
          /\ require_3D = FALSE
          /\ Registry = EmptyRegistry
    /\ last.op = "set" =>
          LET fresh == register(EmptyRegistry, last.items, 1, FALSE)
          IN  /\ Registry = fresh.reg
              /\ out.exc = fresh.exc
              /\ out.exc = "DuplicatedDescriptorName" =>
                    \E i, j \in DOMAIN last.items :
                        /\ i < j
                        /\ IsDescriptor(last.items[i])
                        /\ IsDescriptor(last.items[j])
                        /\ Name(last.items[i]) = Name(last.items[j])

C14_Witness ==
    /\ last.op = "del"
    /\ Len(last.before.descriptors) = 2
    /\ last.before.require_3D
    /\ last.before.explicit_hydrogens # {}
    /\ descriptors = << >>

(***************************************************************************)
(* C20.  A register call (or setter call) on a collection that raises at   *)
(* element k is not rolled back: the elements before k that were to be     *)
(* added stay registered, in order, after the units registered before the  *)
(* call; element k adds nothing to the ordered sequence or to the name     *)
(* lookup; and no element after k is processed (neither added nor counted  *)
(* in the aggregate flags).                                                *)
(***************************************************************************)
\* the units whose flags the elements 1..k of items bring in
FlagUnits(items, k, ign) ==
    UNION {{items[j]} \cup Closure(items[j]) :
              j \in {i \in 1..k : IsDescriptor(items[i]) /\ ~Skipped(items[i], ign)}}

C20_Step ==
    (last'.op \in {"register", "set"} /\ out'.exc # NoExc) =>
        LET items  == last'.items
            ign    == last'.ignore_3D
            before == IF last'.op = "set" THEN EmptyRegistry ELSE Registry
            k      == Least(Offenders(before.descriptors, items, ign))
            kept   == ToAdd(SubSeq(items, 1, k - 1), ign)
            fu     == FlagUnits(items, k, ign)
        IN  /\ descriptors' = before.descriptors \o kept
            /\ DOMAIN name_dict' = NamesOf(before.descriptors \o kept)
            /\ \A i \in DOMAIN descriptors' :
                  name_dict'[Name(descriptors'[i])] = descriptors'[i]
            /\ explicit_hydrogens' \subseteq
                  before.explicit_hydrogens \cup {desc_explicit_hydrogens(d) : d \in fu}
            /\ kekulizes' \subseteq
                  before.kekulizes \cup {desc_kekulize(d) : d \in fu}
            /\ require_3D' =>
                  before.require_3D \/ \E d \in fu : desc_require_3D(d)

C20_NoRollback == [][C20_Step]_vars

C20_Witness ==
    /\ last.op = "register"
    /\ last.items = <<"uB", NotDesc>>
    /\ out.exc = "ValueError"
    /\ descriptors = <<"uB">>
    /\ DOMAIN name_dict = {"B"}

(***************************************************************************)
(* C15.  The diagnostic stack carried by a tagged failure is exactly the   *)
(* dependency path from the requested top-level unit down to the unit      *)
(* that failed: siblings that finished earlier do not appear in it.        *)
(***************************************************************************)
\* the dependencies of d, by position, whose resolution raises on m
FailingDeps(bh, dbg, m, d) ==
    {i \in DOMAIN dependencies(d) :
        dependencies(d)[i] # NoDep /\ Raises(bh, dbg, m, dependencies(d)[i])}

\* the dependency path from d down to the unit whose failure ends the
\* resolution of d on m
RECURSIVE FailPath(_, _, _, _)
FailPath(bh, dbg, m, d) ==
    IF desc_require_connected(d) /\ NFrags(m) # 1 THEN <<d>>
    ELSE IF FailingDeps(bh, dbg, m, d) = {} THEN <<d>>
    ELSE <<d>> \o FailPath(bh, dbg, m, dependencies(d)[Least(FailingDeps(bh, dbg, m, d))])

C15_StackIsPath ==
    HasRun =>
        \A i \in DOMAIN descriptors :
            out.results[i].kind \in Failure =>
                out.results[i].stack = FailPath(behav, debug, last.mol, descriptors[i])

(***************************************************************************)
(* C16.  If resolving a declared non-null dependency of a top-level unit   *)
(* raises, the unit's own calculate is not invoked and the unit's result   *)
(* is a tagged failure of the kind and with the cause of the dependency's  *)
(* failure; a dependency declared null is passed to calculate as None,     *)
(* every other one as the value of that dependency.                        *)
(***************************************************************************)
\* kind and cause of the failure that resolving d on m ends with
RECURSIVE Cause(_, _, _, _)
Cause(bh, dbg, m, d) ==
    IF desc_require_connected(d) /\ NFrags(m) # 1
    THEN [kind |-> "Missing", error |-> [cls |-> "MultipleFragments", by |-> "-"]]
    ELSE IF FailingDeps(bh, dbg, m, d) # {}
    THEN Cause(bh, dbg, m, dependencies(d)[Least(FailingDeps(bh, dbg, m, d))])
    ELSE CASE Outcome(bh, d, m) = "missing" ->
                [kind |-> "Missing", error |-> [cls |-> "cause", by |-> d]]
           [] Outcome(bh, d, m) = "error" ->
                [kind |-> "Error", error |-> [cls |-> "Exception", by |-> d]]
           [] OTHER ->
                [kind |-> "Error", error |-> [cls |-> "TypeError", by |-> d]]

C16_DependencyFailure ==
    HasRun =>
        \A i \in DOMAIN descriptors :
            LET d    == descriptors[i]
                r    == out.results[i]
                deps == dependencies(d)
                bad  == FailingDeps(behav, debug, last.mol, d)
            IN  /\ (~(desc_require_connected(d) /\ NFrags(last.mol) # 1) /\ bad # {}) =>
                      LET c == Cause(behav, debug, last.mol, deps[Least(bad)])
                      IN  /\ out.ncalls[d] = 0
                          /\ r.kind = c.kind
                          /\ r.error = c.error
                /\ r.kind = "value" =>
                      /\ Len(r.args) = Len(deps)
                      /\ \A j \in DOMAIN deps :
                            IF deps[j] = NoDep THEN r.args[j] = None
                            ELSE r.args[j].kind = "value" /\ r.args[j].unit = deps[j]

C16_Witness ==
    /\ HasRun
    /\ \E i \in DOMAIN descriptors :
          /\ descriptors[i] = "uE"
          /\ out.results[i].kind = "Missing"
          /\ out.results[i].error = [cls |-> "cause", by |-> "uA"]
          /\ out.ncalls["uE"] = 0
          /\ out.ncalls["uA2"] = 1

(***************************************************************************)
(* C17.  Original claim: in debug mode a value that does not match the     *)
(* declared result type causes a TypeError that escapes the evaluation of  *)
(* the structure and is not turned into a result of the unit.              *)
(***************************************************************************)
\* unit d is reached on the evaluated structure and returns a value that
\* the check of the declared result type rejects
Mistyped(d) ==
    /\ desc_rtype(d) # "None"
    /\ OwnReached(behav, debug, last.mol, d)
    /\ Outcome(behav, d, last.mol) = "badtype"

C17_FatalTypeError ==
    HasRun =>
        \A i \in DOMAIN descriptors :
            (debug /\ Mistyped(descriptors[i])) =>
                /\ out.exc = "TypeError"
                /\ Len(out.results) < i

\* C17 as amended: in debug mode the TypeError of the check is caught with
\* the unit's other exceptions: the evaluation raises nothing, the unit's
\* result is an Error carrying the TypeError, the value is not cached and
\* the units after it are still evaluated; outside debug mode, or for a
\* unit without a declared result type, the value is returned unchecked.
C17_TypeErrorReported ==
    HasRun =>
        /\ out.exc = "none"
        /\ Len(out.results) = Len(descriptors)
        /\ \A i \in DOMAIN descriptors :
              LET d == descriptors[i]
                  r == out.results[i]
              IN  /\ (debug /\ Mistyped(d)) =>
                        /\ r.kind = "Error"
                        /\ r.error = [cls |-> "TypeError", by |-> d]
                        /\ d \notin DOMAIN cache
                  /\ (~(debug /\ desc_rtype(d) # "None")
                      /\ OwnReached(behav, debug, last.mol, d)
                      /\ Outcome(behav, d, last.mol) = "badtype") =>
                        /\ r.kind = "value"
                        /\ r.unit = d
                        /\ ~r.typed

C17_Witness ==
    /\ HasRun
    /\ debug
    /\ descriptors = <<"uB", "uE">>
    /\ Mistyped("uB")
    /\ out.results[1].kind = "Error"
    /\ out.results[1].error.cls = "TypeError"
    /\ out.results[2].kind = "value"

(***************************************************************************)
(* C18.  Once the evaluation of a structure has completed, no unit still   *)
(* holds a reference to that structure's evaluation context.               *)
(***************************************************************************)
C18_NoContextHeld ==
    HasRun => holders = {}

(***************************************************************************)
(* C11.  map yields one Result sequence per input structure, in input      *)
(* order: the k-th sequence the caller receives is what evaluating the     *)
(* k-th input structure on the calculator returns, and the end comes after *)
(* as many sequences as there are structures.  This holds on the serial    *)
(* path (nproc = 1) and on the worker-pool path (every other nproc),       *)
(* whatever the order in which the workers finish, so both yield the same. *)
(***************************************************************************)
\* what calc(m) returns on this calculator
EvaluateOne(m) == run_calculate(descriptors, << >>, {}, behav, debug, m).results

C11_SerialInOrder ==
    (last.op = "next") =>
        IF out.exc = "StopIteration"
        THEN out.k = Len(last.mols)
        ELSE /\ out.exc = "none"
             /\ out.k \in 1..Len(last.mols)
             /\ out.results = EvaluateOne(last.mols[out.k])

\* where the worker-pool half of C11 fails: the calculator was in debug
\* mode when map was called, the workers' calculator is not, and a unit
\* whose value is not of its declared type comes back as a plain value,
\* where calc(m) and the serial path give an Error
C11_DebugLost ==
    /\ last.op = "pnext"
    /\ out.exc = "none"
    /\ par.pickled
    /\ par.parent
    /\ debug
    /\ ~par.debug
    /\ \E i \in DOMAIN out.results :
          /\ out.results[i].kind = "value"
          /\ EvaluateOne(last.mol)[i].kind = "Error"
          /\ EvaluateOne(last.mol)[i].error.cls = "TypeError"

(***************************************************************************)
(* C12.  Original claim: on the serial path, at every point where the      *)
(* caller has received k Result sequences the progress counter has         *)
(* advanced k times, and after the end it equals the number of input       *)
(* structures.                                                             *)
(***************************************************************************)
C12_CounterWithYield ==
    (last.op = "next") => out.n = out.k

\* C12 as amended: the counter advances by one per structure, failures or
\* not, when the caller resumes the sequence after that structure's
\* Results: with k sequences received it has advanced k - 1 times, and
\* after the end it equals the number of input structures.
C12_CounterOnResume ==
    (last.op = "next") =>
        IF out.exc = "StopIteration"
        THEN /\ out.k = Len(last.mols)
             /\ out.n = Len(last.mols)
        ELSE /\ out.exc = "none"
             /\ out.n = out.k - 1

C12_Witness ==
    /\ last.op = "next"
    /\ out.exc = "none"
    /\ out.k = 2
    /\ out.n = 1
    /\ \E i \in DOMAIN out.results : out.results[i].kind \in Failure

(***************************************************************************)
(* C19.  register terminates on every input with the outcome of            *)
(* registering, one by one and in depth-first order, the units the input   *)
(* flattens to: nested collections, classes and modules are expanded in    *)
(* order, and an input or element that is no descriptor-like (a text       *)
(* string among them) ends the call with the configuration error           *)
(* ValueError, never with unbounded recursion; nothing but descriptor      *)
(* units is ever added.                                                    *)
(***************************************************************************)
\* what a descriptor-like flattens to, depth-first and in order, an object
\* that is no descriptor-like standing as itself
RECURSIVE Flat(_)
RECURSIVE FlatAll(_, _)
FlatAll(xs, i) == IF i > Len(xs) THEN << >> ELSE Flat(xs[i]) \o FlatAll(xs, i + 1)

Flat(x) ==
    CASE x.t = "unit" -> <<x.u>>
      [] x.t = "class" -> x.preset
      [] x = TheModule -> <<"uA", "uB">>
      [] x.t = "list" -> FlatAll(x.xs, 1)
      [] OTHER -> <<NotDesc>>

C19_Step ==
    (last'.op = "register_like") =>
        LET flat == Flat(last'.input)
            ign  == last'.ignore_3D
            off  == Offenders(descriptors, flat, ign)
        IN  /\ IF off = {}
               THEN /\ out'.exc = NoExc
                    /\ descriptors' = descriptors \o ToAdd(flat, ign)
               ELSE /\ out'.exc = IF IsDescriptor(flat[Least(off)])
                                  THEN "DuplicatedDescriptorName" ELSE "ValueError"
                    /\ descriptors' =
                          descriptors \o ToAdd(SubSeq(flat, 1, Least(off) - 1), ign)
            /\ \A i \in DOMAIN descriptors' : IsDescriptor(descriptors'[i])

C19_RegisterTerminates == [][C19_Step]_vars

\* the same for the calls under an interpreter whose text strings have no
\* __iter__ (Python 2), or whose input holds no text string
RECURSIVE HasStr(_)
HasStr(x) ==
    \/ x.t = "str"
    \/ x.t = "list" /\ \E i \in DOMAIN x.xs : HasStr(x.xs[i])

C19_ExceptStrings ==
    [][(last'.op = "register_like" /\ (~last'.py3 \/ ~HasStr(last'.input)))
          => C19_Step]_vars

====
